---------------------------- MODULE Spec2Model ----------------------------
(***************************************************************************)
(* Model of the nansat format mappers:                                     *)
(*   src/mappers/envisat.py        class Envisat (header scan, offset      *)
(*                                 tables, raw band parameters, geoloc.)   *)
(*   src/mappers/mapper_landsat.py class Mapper (bands of a tar archive)   *)
(*                                                                         *)
(* An Envisat product file is a text header (lines) followed by binary     *)
(* data.  A state holds one file, the host's native byte order, the        *)
(* attributes the mapper object has set so far, and the outcome of the     *)
(* last method call.  Every method is an operator computed as the Python   *)
(* code computes it; an action calls one method on inputs drawn from       *)
(* bounded sets.  A Python exception is the outcome Raised.                *)
(***************************************************************************)
EXTENDS Integers, Sequences, FiniteSets, TLC

VARIABLES
    file,        \* the Envisat file: [lines, starts, dataStart, size, seed]
    native,      \* byte order of the host: "little" or "big"
    call,        \* last method call: [op, args, out]
    latVRT,      \* self.latVRT
    lonVRT,      \* self.lonVRT
    geolocation, \* argument of the last self.add_geolocation
    tarNames,    \* Landsat: tarFile.getnames()
    mapper       \* Landsat: the Mapper under construction

vars == <<file, native, call, latVRT, lonVRT, geolocation, tarNames, mapper>>

---------------------------------------------------------------------------
(* Bounds of the model.                                                    *)

\* longest data_key list passed to get_RawBandParameters
MaxDataKeyLen == 2
\* largest index passed to read_scaling_gads
MaxIndex == 3
\* longest indeces list passed to read_scaling_gads
MaxIndecesLen == 2
\* most members of a Landsat archive
MaxMembers == 3

---------------------------------------------------------------------------
(* Python values.                                                          *)

None == [status |-> "none"]
Raised == [status |-> "raised"]
Ok(v) == [status |-> "ok", value |-> v]
RaisedExc(e) == [status |-> "raised", exc |-> e]

Min2(a, b) == IF a < b THEN a ELSE b
Max2(a, b) == IF a > b THEN a ELSE b

RECURSIVE SeqMax(_)
SeqMax(s) == IF Len(s) = 1 THEN s[1] ELSE Max2(s[1], SeqMax(Tail(s)))

\* all sequences over S of length 0..n
SeqsUpTo(S, n) == UNION {[1..k -> S] : k \in 0..n}

\* Python list indexing s[i] (0-based, negative i counts from the end):
\* the 1-based position in s, or 0 when Python raises IndexError.
PyIndex(s, i) ==
    IF i >= 0 THEN (IF i < Len(s) THEN i + 1 ELSE 0)
    ELSE (IF Len(s) + i >= 0 THEN Len(s) + i + 1 ELSE 0)

---------------------------------------------------------------------------
(* The file.  A header line is [kind, key, num, unit, len]:                *)
(*   DS_NAME  DS_NAME="<key>"\n            key keeps its blank padding     *)
(*   kv       <key>=<num><unit>\n                                          *)
(*   text     any other text line                                          *)
(*   binary   the binary data up to the end of the file (no newline)       *)
(* len is the line's length in bytes, its newline included.                *)

DSNameLine(name) == [kind |-> "DS_NAME", key |-> name, num |-> 0, unit |-> "", len |-> 11 + 28]
KVLine(key, num, unit, len) == [kind |-> "kv", key |-> key, num |-> num, unit |-> unit, len |-> len]
TextLine(len) == [kind |-> "text", key |-> "", num |-> 0, unit |-> "", len |-> len]
BinaryLine(len) == [kind |-> "binary", key |-> "", num |-> 0, unit |-> "", len |-> len]

\* the marker lines of the source, as lines
TiePointsADS == DSNameLine("Tie points ADS              ")
GeolocationGridADS == DSNameLine("GEOLOCATION GRID ADS        ")
ScalingFactorGADS == DSNameLine("Scaling Factor GADS         ")
QualityADS == DSNameLine("Quality ADS                 ")

RECURSIVE SumLen(_)
SumLen(ls) == IF ls = <<>> THEN 0 ELSE ls[1].len + SumLen(Tail(ls))


---------------------------------------------------------------------------
(* file.readlines(sizehint), CPython 2 (the code uses file() and print    *)
(* statements): the file is read in chunks of SMALLCHUNK bytes until at    *)
(* least sizehint bytes are read; every line that starts within the bytes  *)
(* read is returned, the last one completed.  sizehint counts bytes.       *)

SMALLCHUNK == 8192

\* read_text's argument of readlines
SizeHint == 150

BytesRead(sizehint) == SMALLCHUNK * ((sizehint + SMALLCHUNK - 1) \div SMALLCHUNK)

\* the lines of f that start within the bytes read (f.starts[i] is the
\* byte offset at which line i starts)
readlines(f, sizehint) ==
    SubSeq(f.lines, 1,
           Cardinality({i \in 1..Len(f.lines) : f.starts[i] < BytesRead(sizehint)}))

---------------------------------------------------------------------------
(* Envisat.read_text                                                       *)

EmptyDict == <<>>

\* line.replace(iKey+"=", '').replace('<bytes>', '') is the text of an
\* integer (int() accepts a sign, leading zeros and the trailing newline)
IsIntText(line, iKey) ==
    /\ line.kind = "kv"
    /\ line.key = iKey
    /\ line.unit \in {"", "<bytes>"}

\* headerLines.index(x): 0-based position of the first line equal to x
ListIndex(headerLines, x) ==
    (CHOOSE i \in 1..Len(headerLines) :
        /\ headerLines[i] = x
        /\ \A j \in 1..(i - 1) : headerLines[j] # x) - 1

\* mutant: the offset within the record, DS_OFFSET not added
SubValOffsetOf_NoBase(dsOffset, entry) == entry.offset

\* dsOffset + subValOffset[jkey]["offset"]
SubValOffsetOf(dsOffset, entry) == dsOffset + entry.offset

\* the body of read_text after the lines are read
ScanHeaderLines(headerLines, gadsDSName, textOffset, subValOffset) ==
        IF ~(\E i \in 1..Len(headerLines) : headerLines[i] = gadsDSName)
        THEN Ok(EmptyDict)
        ELSE
        LET gridOffset == ListIndex(headerLines, gadsDSName)
            at(iKey) == PyIndex(headerLines, gridOffset + textOffset[iKey])
            valueOf(iKey) == headerLines[at(iKey)].num
        IN  IF \E iKey \in DOMAIN textOffset :
                   at(iKey) = 0 \/ ~IsIntText(headerLines[at(iKey)], iKey)
            THEN Raised                             \* IndexError, ValueError
            ELSE IF DOMAIN subValOffset = {}
            THEN Ok([iKey \in DOMAIN textOffset |-> valueOf(iKey)])
            ELSE IF "DS_OFFSET" \notin DOMAIN textOffset
                    \/ \E jkey \in DOMAIN subValOffset :
                           "offset" \notin DOMAIN subValOffset[jkey]
            THEN Raised                             \* KeyError, TypeError
            ELSE Ok([k \in DOMAIN textOffset \cup DOMAIN subValOffset |->
                        IF k \in DOMAIN subValOffset
                        THEN SubValOffsetOf(valueOf("DS_OFFSET"), subValOffset[k])
                        ELSE valueOf(k)])

read_text(f, gadsDSName, textOffset, subValOffset) ==
    ScanHeaderLines(readlines(f, SizeHint), gadsDSName, textOffset, subValOffset)

---------------------------------------------------------------------------
(* Binary data and struct.unpack                                           *)

\* the bytes the model's files are made of
Palette == <<0, 1, 2, 3, 253, 254>>

\* byte at offset pos of the binary part of f
ByteAt(f, pos) ==
    Palette[(((pos % 7) * 3 + (pos % 11) * 5 + (pos % 13) + f.seed) % Len(Palette)) + 1]

\* f.read(4) at offset pos, file order
Read4(f, pos) == <<ByteAt(f, pos), ByteAt(f, pos + 1), ByteAt(f, pos + 2), ByteAt(f, pos + 3)>>

Reverse4(b) == <<b[4], b[3], b[2], b[1]>>

\* byte order of a struct format: ">" is big-endian, no prefix is native
OrderOf(fmt, nat) == IF fmt = ">f" THEN "big" ELSE nat

\* type character of a struct format
TypeOf(fmt) == IF fmt = ">f" THEN "f" ELSE fmt

\* value of 4 bytes given most significant first
Int32(b) == (IF b[1] >= 128 THEN b[1] - 256 ELSE b[1]) * 16777216 + b[2] * 65536 + b[3] * 256 + b[4]
UInt32(b) == b[1] * 16777216 + b[2] * 65536 + b[3] * 256 + b[4]
\* an IEEE 754 single, by its fields
Float32(b) == [sign |-> b[1] \div 128,
               exponent |-> (b[1] % 128) * 2 + (b[2] \div 128),
               fraction |-> (b[2] % 128) * 65536 + b[3] * 256 + b[4]]

\* unpack(fmt, fbString)[0] on a host of native order nat
unpack(fmt, nat, fbString) ==
    LET b == IF OrderOf(fmt, nat) = "big" THEN fbString ELSE Reverse4(fbString)
    IN  CASE TypeOf(fmt) = "i" -> Int32(b)
          [] TypeOf(fmt) = "I" -> UInt32(b)
          [] TypeOf(fmt) = "f" -> Float32(b)

\* the float 1.0
One == [sign |-> 0, exponent |-> 127, fraction |-> 0]

\* a - b on unpacked values: integers exactly, floats as the difference of
\* the two operands
PySub(fmt, a, b) ==
    IF TypeOf(fmt) = "f" THEN [minuend |-> a, subtrahend |-> b] ELSE a - b
PyOne(fmt) == IF TypeOf(fmt) = "f" THEN One ELSE 1

\* Envisat.read_allList: numOfReadData 4-byte values from offsetDict[keyName]
read_allList(f, nat, offsetDict, keyName, fmt, numOfReadData) ==
    IF keyName \notin DOMAIN offsetDict THEN Raised            \* KeyError
    ELSE IF numOfReadData > 0
            /\ offsetDict[keyName] + 4 * numOfReadData > f.size
    THEN Raised                                    \* struct.error at EOF
    ELSE Ok([i \in 1..numOfReadData |->
                unpack(fmt, nat, Read4(f, offsetDict[keyName] + 4 * (i - 1)))])

\* mutant: the first len(indeces) values
PickValues_Prefix(allGADSValues, indeces) == SubSeq(allGADSValues, 1, Len(indeces))

\* [allGADSValues[i] for i in indeces], every index in range
PickValues(allGADSValues, indeces) ==
    [i \in 1..Len(indeces) |-> allGADSValues[PyIndex(allGADSValues, indeces[i])]]

\* Envisat.read_scaling_gads
read_scaling_gads(f, nat, indeces) ==
    IF indeces = <<>> THEN Raised                  \* max() of an empty list
    ELSE
    LET maxGADS == SeqMax(indeces) + 1
        textOffset == [k \in {"DS_OFFSET"} |-> 3]
        offsetDict == read_text(f, ScalingFactorGADS, textOffset, EmptyDict)
    IN  IF offsetDict.status # "ok" THEN Raised
        ELSE
        LET allGADSValues == read_allList(f, nat, offsetDict.value, "DS_OFFSET", ">f",
                                          Max2(maxGADS, 0))
        IN  IF allGADSValues.status # "ok" THEN Raised
            ELSE IF \E i \in 1..Len(indeces) :
                        PyIndex(allGADSValues.value, indeces[i]) = 0
            THEN Raised                            \* IndexError
            ELSE Ok(PickValues(allGADSValues.value, indeces))

---------------------------------------------------------------------------
(* Envisat.get_ADSRlist: the marker line and the table of a file type.     *)
(* An entry is [offset, datatype, unit]; the entry "Dim" is an integer.    *)

Entry(o, d, u) == [offset |-> o, datatype |-> d, unit |-> u]
IntEntry(n) == [int |-> n]

gadsDSNameOf(fileType) ==
    IF fileType = "MER_" THEN TiePointsADS ELSE GeolocationGridADS

ADSR_MER ==
    ("Dim" :> IntEntry(71))
    @@ ("latitude"                  :> Entry(13,                  "int32",  "(10)^-6 deg"))
    @@ ("longitude"                 :> Entry(13 + 284*1,          "int32",  "(10)^-6 deg"))
    @@ ("DME altitude"              :> Entry(13 + 284*2,          "int32",  "m"))
    @@ ("DME roughness"             :> Entry(13 + 284*3,          "uint32", "m"))
    @@ ("DME latitude corrections"  :> Entry(13 + 284*4,          "int32",  "(10)^-6 deg"))
    @@ ("DME longitude corrections" :> Entry(13 + 284*5,          "int32",  "(10)^-6 deg"))
    @@ ("sun zenith angles"         :> Entry(13 + 284*6,          "uint32", "(10)^-6 deg"))
    @@ ("sun azimuth angles"        :> Entry(13 + 284*7,          "int32",  "(10)^-6 deg"))
    @@ ("viewing zenith angles"     :> Entry(13 + 284*8,          "uint32", "(10)^-6 deg"))
    @@ ("viewing azimuth angles"    :> Entry(13 + 284*9,          "int32",  "(10)^-6 deg"))
    @@ ("zonal winds"               :> Entry(13 + 284*10 + 142*0, "int16",  "m*s-1"))
    @@ ("meridional winds"          :> Entry(13 + 284*10 + 142*1, "int16",  "m*s-1"))
    @@ ("mean sea level pressure"   :> Entry(13 + 284*10 + 142*2, "uint16", "hPa"))
    @@ ("total ozone"               :> Entry(13 + 284*10 + 142*3, "uint16", "DU"))
    @@ ("relative humidity"         :> Entry(13 + 284*10 + 142*4, "uint16", "%"))

ADSR_ASA ==
    ("Dim" :> IntEntry(11))
    @@ ("num_lines"                   :> Entry(13,                          "int",     ""))
    @@ ("first_samp_numbers"          :> Entry(25 + 11*4*0,                 "float32", ""))
    @@ ("first_slant_range_times"     :> Entry(25 + 11*4*1,                 "float32", "ns"))
    @@ ("first_line_incidenceAngle"   :> Entry(25 + 11*4*2,                 "float32", "deg"))
    @@ ("first_line_lats"             :> Entry(25 + 11*4*3,                 "int32",   "(10)^-6 deg"))
    @@ ("first_line_longs"            :> Entry(25 + 11*4*4,                 "int32",   "(10)^-6 deg"))
    @@ ("last_line_samp_numbers"      :> Entry(25 + 11*4*5 + 34 + 11*4*0,   "int32",   ""))
    @@ ("last_line_slant_range_times" :> Entry(25 + 11*4*5 + 34 + 11*4*1,   "float32", "ns"))
    @@ ("last_line_incidenceAngle"    :> Entry(25 + 11*4*5 + 34 + 11*4*2,   "float32", "deg"))
    @@ ("last_line_lats"              :> Entry(25 + 11*4*5 + 34 + 11*4*3,   "int32",   "(10)^-6 deg"))
    @@ ("last_line_longs"             :> Entry(25 + 11*4*5 + 34 + 11*4*4,   "int32",   "(10)^-6 deg"))

ADSR_list(fileType) == IF fileType = "MER_" THEN ADSR_MER ELSE ADSR_ASA

\* the file types get_ADSRlist knows; for any other it raises
\* (gadsDSName is unbound at its return)
KnownFileTypes == {"MER_", "ASA_"}

---------------------------------------------------------------------------
(* Envisat.get_RawBandParameters                                           *)

\* {"uint16": 2, ..., "complex64": 11}.get(datatype, 6)
GdalDataType(datatype) ==
    CASE datatype = "uint16" -> 2
      [] datatype = "int16" -> 3
      [] datatype = "uint32" -> 4
      [] datatype = "int32" -> 5
      [] datatype = "float32" -> 6
      [] datatype = "float64" -> 7
      [] datatype = "complex64" -> 11
      [] OTHER -> 6

\* {2:2, 3:2, 4:4, 5:4, 6:4, 7:8, 11:8}.get(dataType, 4)
PixelSize(dataType) ==
    CASE dataType \in {2, 3} -> 2
      [] dataType \in {4, 5, 6} -> 4
      [] dataType \in {7, 11} -> 8
      [] OTHER -> 4

\* the name of the file, as the mapper is given it
fileName == "envisat.N1"

\* one element of metaDict
BandOf(ikey, entry, offsetDict) ==
    [source |-> fileName, sourceBand |-> 0, wkv |-> ikey,
     parameters |-> [ImageOffset |-> offsetDict[ikey],
                     PixelOffset |-> PixelSize(GdalDataType(entry.datatype)),
                     LineOffset |-> offsetDict["DSR_SIZE"],
                     ByteOrder |-> "MSB",
                     dataType |-> GdalDataType(entry.datatype),
                     band_name |-> ikey,
                     unit |-> entry.unit],
     SourceType |-> "RawRasterBand"]

\* mutant: the record size taken for the number of records
BandSize_RecordSize(dim, offsetDict) == <<dim, offsetDict["DSR_SIZE"]>>

\* the band size returned: (dim, offsetDict["NUM_DSR"])
BandSize(dim, offsetDict) == <<dim, offsetDict["NUM_DSR"]>>

RawTextOffset == ("NUM_DSR" :> 5) @@ ("DSR_SIZE" :> 6) @@ ("DS_OFFSET" :> 3)

\* Ok([XSize, YSize, metaDict]) or Raised
\* the entries of the table that data_key names
AdsrDictOf(table, data_key) ==
    [key \in {data_key[i] : i \in 1..Len(data_key)} \cap DOMAIN table |-> table[key]]

\* the body of get_RawBandParameters after read_text
RawBandsOf(dim, data_key, adsrDict, offsetDict) ==
    IF offsetDict.status # "ok" THEN Raised
    ELSE IF \E i \in 1..Len(data_key) :
                data_key[i] \notin DOMAIN adsrDict \/ data_key[i] = "Dim"
    THEN Raised                                    \* KeyError, TypeError
    ELSE IF DOMAIN offsetDict.value = {}
    THEN Raised                                    \* KeyError: marker not found
    ELSE Ok([XSize |-> BandSize(dim, offsetDict.value)[1],
             YSize |-> BandSize(dim, offsetDict.value)[2],
             metaDict |-> [i \in 1..Len(data_key) |->
                 BandOf(data_key[i], adsrDict[data_key[i]], offsetDict.value)]])

get_RawBandParameters(f, fileType, data_key) ==
    IF fileType \notin KnownFileTypes THEN Raised
    ELSE RawBandsOf(ADSR_list(fileType)["Dim"].int, data_key,
                    AdsrDictOf(ADSR_list(fileType), data_key),
                    read_text(f, gadsDSNameOf(fileType), RawTextOffset,
                              AdsrDictOf(ADSR_list(fileType), data_key)))

---------------------------------------------------------------------------
(* Envisat.get_GeoArrayParameters                                          *)

\* {"int":"i", "int32":"i", "uint32":"I", "float32":"f"}.get(datatype, "f")
FmtOf(datatype) ==
    CASE datatype \in {"int", "int32"} -> "i"
      [] datatype = "uint32" -> "I"
      [] OTHER -> "f"

\* mutant: both lines looked up one line too late
MerTextOffset_Late == ("LINES_PER_TIE_PT" :> -3) @@ ("SAMPLES_PER_TIE_PT" :> -2)

\* textOffset = {'LINES_PER_TIE_PT':-4, 'SAMPLES_PER_TIE_PT':-3}
MerTextOffset == ("LINES_PER_TIE_PT" :> -4) @@ ("SAMPLES_PER_TIE_PT" :> -3)

\* [0, 0, valueDict["SAMPLES_PER_TIE_PT"], valueDict["LINES_PER_TIE_PT"]]
MerGeolocParameter(valueDict) ==
    <<0, 0, valueDict["SAMPLES_PER_TIE_PT"], valueDict["LINES_PER_TIE_PT"]>>

\* [v[3]-1, v[0]-1, v[4]-v[3], v[1]] of the Python list v (0-based there)
AsaGeolocParameter(fmt, v) ==
    <<PySub(fmt, v[4], PyOne(fmt)), PySub(fmt, v[1], PyOne(fmt)),
      PySub(fmt, v[5], v[4]), v[2]>>

\* mutant: the last key of the list
GeoKey_Last(data_key) == data_key[Len(data_key)]

\* the key the ASA_ branch reads: data_key[0]
GeoKey(data_key) == data_key[1]

get_GeoArrayParameters(f, nat, fileType, data_key) ==
    IF fileType = "MER_" THEN
        LET valueDict == read_text(f, QualityADS, MerTextOffset, EmptyDict)
        IN  IF valueDict.status # "ok" \/ DOMAIN valueDict.value = {}
            THEN Raised                            \* KeyError: marker not found
            ELSE Ok(MerGeolocParameter(valueDict.value))
    ELSE IF fileType = "ASA_" THEN
        IF data_key = <<>> THEN Raised             \* IndexError
        ELSE IF GeoKey(data_key) \notin DOMAIN ADSR_ASA \/ GeoKey(data_key) = "Dim"
        THEN Raised                                \* KeyError, TypeError
        ELSE
        LET key == GeoKey(data_key)
            dataDict == (key :> ADSR_ASA[key])
            textOffset == ("DS_OFFSET" :> 3)
            fmt == FmtOf(ADSR_ASA[key].datatype)
            offsetDict == read_text(f, GeolocationGridADS, textOffset, dataDict)
        IN  IF offsetDict.status # "ok" THEN Raised
            ELSE
            LET allGADSValues == read_allList(f, nat, offsetDict.value, key, fmt, 5)
            IN  IF allGADSValues.status # "ok" THEN Raised
                ELSE Ok(AsaGeolocParameter(fmt, allGADSValues.value))
    ELSE Raised                                    \* geolocParameter is unbound

---------------------------------------------------------------------------
(* The VRT class (module vrt, outside these sources): a dataset of a given *)
(* size with bands.  _create_bands adds one band per element of metaDict;  *)
(* the order the bands get in the dataset is the order argument, a         *)
(* permutation of the positions of metaDict.  A band's metadata is its     *)
(* parameters; ReadAsArray gives the values of the raw band the parameters *)
(* describe, kept here as that description.                                *)

VRT_new(XSize, YSize) == [srcRasterXSize |-> XSize, srcRasterYSize |-> YSize, bands |-> <<>>]

VRT_create_bands(vrt, metaDict, order) ==
    [vrt EXCEPT !.bands = [i \in 1..Len(metaDict) |-> metaDict[order[i]]]]

GetMetadata(band) == band.parameters

ReadAsArray(vrt, iBand) ==
    [raw |-> vrt.bands[iBand].parameters,
     XSize |-> vrt.srcRasterXSize, YSize |-> vrt.srcRasterYSize]

\* VRT(array=array / divisor), stored under name
VRT_ofArray(name, array, divisor) == [fileName |-> name, array |-> array, divisor |-> divisor]

Orders(n) == Permutations(1..n)

---------------------------------------------------------------------------
(* Envisat.create_VRTwithRawBands                                          *)

\* VRT(srcRasterXSize=XSize, srcRasterYSize=YSize)
NewRawVRT(params) == VRT_new(params.XSize, params.YSize)

\* vrt._create_bands(metaDict) on the new VRT
RawVRTOf(params, order) ==
    IF params.status # "ok" THEN Raised
    ELSE Ok(VRT_create_bands(NewRawVRT(params.value), params.value.metaDict, order))

create_VRTwithRawBands(f, fileType, data_key, order) ==
    RawVRTOf(get_RawBandParameters(f, fileType, data_key), order)

---------------------------------------------------------------------------
(* Envisat.add_GeolocArrayDataset                                          *)

\* the loop over the bands: the last band (1-based) named lon, and the
\* last band not named lon and named lat; 0 when the name stays unbound
XBandOf(vrt, latlonName) ==
    LET S == {i \in 1..Len(vrt.bands) :
                 GetMetadata(vrt.bands[i]).band_name = latlonName.longitude}
    IN  IF S = {} THEN 0 ELSE CHOOSE i \in S : \A j \in S : j <= i
YBandOf(vrt, latlonName) ==
    LET S == {i \in 1..Len(vrt.bands) :
                 /\ GetMetadata(vrt.bands[i]).band_name # latlonName.longitude
                 /\ GetMetadata(vrt.bands[i]).band_name = latlonName.latitude}
    IN  IF S = {} THEN 0 ELSE CHOOSE i \in S : \A j \in S : j <= i

\* self.latVRT = VRT(array=geoVRT.dataset.GetRasterBand(xBand).ReadAsArray()/1000000.0)
LatVRTOf(vrt, xBand, yBand) == VRT_ofArray("vrt1", ReadAsArray(vrt, xBand), 1000000)
\* self.lonVRT = VRT(array=geoVRT.dataset.GetRasterBand(yBand).ReadAsArray()/1000000.0)
LonVRTOf(vrt, xBand, yBand) == VRT_ofArray("vrt2", ReadAsArray(vrt, yBand), 1000000)

\* Geolocation(xVRT=self.lonVRT.fileName, yVRT=self.latVRT.fileName, ...)
GeolocationOf(lat, lon, srs, geolocParameter) ==
    [xVRT |-> lon.fileName, yVRT |-> lat.fileName, xBand |-> 1, yBand |-> 1,
     srs |-> srs,
     lineOffset |-> geolocParameter[2], lineStep |-> geolocParameter[4],
     pixelOffset |-> geolocParameter[1], pixelStep |-> geolocParameter[3]]

\* [out, latVRT, lonVRT, geolocation]: the outcome and the attributes set
\* the attributes when the method raises before it sets them
Unchanged(self) ==
    [out |-> Raised, latVRT |-> self.latVRT, lonVRT |-> self.lonVRT,
     geolocation |-> self.geolocation]

\* self.latVRT, self.lonVRT and self.add_geolocation(Geolocation(...))
SetGeolocation(lat, lon, srs, geolocParameter) ==
    [out |-> Ok(None), latVRT |-> lat, lonVRT |-> lon,
     geolocation |-> GeolocationOf(lat, lon, srs, geolocParameter)]

\* the two VRTs of the bands found
LatLonVRTs(vrt, xBand, yBand, srs, geolocParameter, self) ==
    IF xBand = 0 \/ yBand = 0 THEN Unchanged(self)              \* NameError
    ELSE SetGeolocation(LatVRTOf(vrt, xBand, yBand), LonVRTOf(vrt, xBand, yBand),
                        srs, geolocParameter)

\* the body of add_GeolocArrayDataset after geoVRT and geolocParameter
GeolocOfVRT(vrt, geolocParameter, latlonName, srs, self) ==
    IF vrt.status # "ok" THEN Unchanged(self)
    ELSE IF geolocParameter.status # "ok" THEN Unchanged(self)
    ELSE LatLonVRTs(vrt.value, XBandOf(vrt.value, latlonName),
                    YBandOf(vrt.value, latlonName), srs, geolocParameter.value, self)

add_GeolocArrayDataset(f, nat, fileType, latlonName, srs, parameters, order, self) ==
    GeolocOfVRT(create_VRTwithRawBands(f, fileType,
                    <<latlonName.latitude, latlonName.longitude>>, order),
                get_GeoArrayParameters(f, nat, fileType, parameters),
                latlonName, srs, self)

---------------------------------------------------------------------------
(* The files of the model.  A header is n filler lines of flen bytes, the  *)
(* last k of the four lines that end the SPH, and the data set descriptors *)
(* (DSD) of the Quality ADS, the Scaling Factor GADS, the Tie points ADS   *)
(* and the GEOLOCATION GRID ADS; the binary data follow.  v varies the     *)
(* numbers written in the header and the bytes of the data.                *)

Filler(n, flen) == [i \in 1..n |-> TextLine(flen)]

SPHTail(v) ==
    << KVLine("LINES_PER_TIE_PT", 16 * v, "", 21),
       KVLine("SAMPLES_PER_TIE_PT", 64 * v, "", 23),
       KVLine("COLUMN_SPACING", 260, "<m>", 34),
       TextLine(42) >>

LastK(s, k) == SubSeq(s, Len(s) - k + 1, Len(s))

\* a DSD: DS_NAME, DS_TYPE, FILENAME, DS_OFFSET, DS_SIZE, NUM_DSR, DSR_SIZE, spare
DSD(marker, dsOffset, numDsr, dsrSize) ==
    << marker,
       TextLine(10),
       TextLine(74),
       KVLine("DS_OFFSET", dsOffset, "<bytes>", 39),
       KVLine("DS_SIZE", numDsr * dsrSize, "<bytes>", 37),
       KVLine("NUM_DSR", numDsr, "", 20),
       KVLine("DSR_SIZE", dsrSize, "<bytes>", 28),
       TextLine(33) >>

\* the same without its FILENAME line
ShortDSD(marker, dsOffset, numDsr, dsrSize) ==
    LET d == DSD(marker, dsOffset, numDsr, dsrSize)
    IN  <<d[1], d[2]>> \o SubSeq(d, 4, 8)

\* a DS_NAME line whose name lacks the blank padding
Unpadded(marker) ==
    [marker EXCEPT !.key = CASE marker = QualityADS -> "Quality ADS"
                             [] marker = ScalingFactorGADS -> "Scaling Factor GADS"
                             [] marker = TiePointsADS -> "Tie points ADS"
                             [] OTHER -> "GEOLOCATION GRID ADS",
                   !.len = 11 + 14]

DSDs(base, v, shape) ==
    LET D(m, o, n, z) ==
            CASE shape = "shifted" -> ShortDSD(m, o, n, z)
              [] shape = "unpadded" -> DSD(Unpadded(m), o, n, z)
              [] OTHER -> DSD(m, o, n, z)
        first == D(QualityADS, base + 400, 10 + v, 33)
                 \o D(ScalingFactorGADS, base + 8 * v, 1, 292 + v)
                 \o D(TiePointsADS, base + 100 + 8 * v, 10 + v, 3432 + v)
                 \o D(GeolocationGridADS, base + 200 + 4 * v, 5 + v, 521 + v)
        second == D(TiePointsADS, base + 300, 20 + v, 3400)
                  \o D(ScalingFactorGADS, base + 600, 2, 300)
                  \o D(GeolocationGridADS, base + 700, 7, 500)
                  \o SPHTail(v + 2) \o D(QualityADS, base + 800, 3, 30)
    IN  IF shape = "dup" THEN first \o second ELSE first

\* the header after the filler lines
HeaderRest(k, v, shape, base) == LastK(SPHTail(v), k) \o DSDs(base, v, shape)

MkFile(n, flen, k, v, shape) ==
    LET base == n * flen + SumLen(HeaderRest(k, v, shape, 0))
        rest == HeaderRest(k, v, shape, base)
        dataLen == IF shape = "truncated" THEN 24 ELSE 1500
    IN  [lines |-> Filler(n, flen) \o rest \o <<BinaryLine(dataLen)>>,
         starts |-> [i \in 1..(n + Len(rest) + 1) |->
                        IF i <= n THEN (i - 1) * flen
                        ELSE n * flen + SumLen(SubSeq(rest, 1, i - n - 1))],
         dataStart |-> base,
         size |-> base + dataLen,
         seed |-> v]

Variants == {1, 2}
FillerCounts == {3, 101, 108, 150}
FillerLens == {20, 74}
Shapes == {"dup", "shifted", "unpadded", "truncated"}

Files ==
    {MkFile(0, 20, k, v, "plain") : k \in 0..4, v \in Variants}
    \cup {MkFile(nf[1], nf[2], 4, v, "plain") : nf \in FillerCounts \X FillerLens, v \in Variants}
    \cup {MkFile(3, 20, 4, v, shape) : shape \in Shapes, v \in Variants}
    \cup {MkFile(5, 20, 0, v, "plain") : v \in Variants}

---------------------------------------------------------------------------
(* Inputs of the calls.                                                    *)

FileTypes == {"MER_", "ASA_", "RA2_"}

\* keys of which lists longer than one element are made
PairKeys(fileType) ==
    CASE fileType = "MER_" -> {"latitude", "longitude", "zonal winds"}
      [] fileType = "ASA_" -> {"first_line_lats", "first_line_longs", "num_lines"}
      [] OTHER -> {}

KeyLists(fileType) == SeqsUpTo(PairKeys(fileType), MaxDataKeyLen)

DataKeys(fileType) ==
    IF fileType \in KnownFileTypes
    THEN KeyLists(fileType)
         \cup {<<key>> : key \in DOMAIN ADSR_list(fileType) \cup {"bogus"}}
    ELSE {<<>>}

LatLonNames(fileType) ==
    CASE fileType = "MER_" ->
            {[latitude |-> "latitude", longitude |-> "longitude"],
             [latitude |-> "latitude", longitude |-> "latitude"]}
      [] fileType = "ASA_" ->
            {[latitude |-> "first_line_lats", longitude |-> "first_line_longs"],
             [latitude |-> "last_line_lats", longitude |-> "last_line_longs"]}
      [] OTHER -> {[latitude |-> "latitude", longitude |-> "longitude"]}

GeoParameters(fileType) ==
    IF fileType = "ASA_"
    THEN {<<>>, <<"num_lines">>, <<"first_samp_numbers">>, <<"num_lines", "first_line_lats">>}
    ELSE {<<>>}

Markers == {TiePointsADS, GeolocationGridADS, ScalingFactorGADS, QualityADS}
TextOffsets == {RawTextOffset, MerTextOffset, ("DS_OFFSET" :> 3)}
SubValOffsets == {EmptyDict, ("latitude" :> ADSR_MER["latitude"])}

Indeces == SeqsUpTo(-1..MaxIndex, MaxIndecesLen)

srs == "WGS84"

---------------------------------------------------------------------------
(* The Envisat specification: one method call on one file.                 *)

Idle == [op |-> "none", args |-> <<>>, out |-> None]

Init ==
    /\ file \in Files
    /\ native \in {"little", "big"}
    /\ call = Idle
    /\ latVRT = None
    /\ lonVRT = None
    /\ geolocation = None
    /\ tarNames = <<>>
    /\ mapper = None

Call_read_text ==
    /\ call = Idle
    /\ \E gadsDSName \in Markers, textOffset \in TextOffsets, subValOffset \in SubValOffsets :
          call' = [op |-> "read_text",
                   args |-> [gadsDSName |-> gadsDSName, textOffset |-> textOffset,
                             subValOffset |-> subValOffset],
                   out |-> read_text(file, gadsDSName, textOffset, subValOffset)]
    /\ UNCHANGED <<file, native, latVRT, lonVRT, geolocation, tarNames, mapper>>

Call_read_scaling_gads ==
    /\ call = Idle
    /\ \E indeces \in Indeces :
          call' = [op |-> "read_scaling_gads",
                   args |-> [indeces |-> indeces],
                   out |-> read_scaling_gads(file, native, indeces)]
    /\ UNCHANGED <<file, native, latVRT, lonVRT, geolocation, tarNames, mapper>>

Call_get_RawBandParameters ==
    /\ call = Idle
    /\ \E fileType \in FileTypes :
       \E data_key \in DataKeys(fileType) :
          call' = [op |-> "get_RawBandParameters",
                   args |-> [fileType |-> fileType, data_key |-> data_key],
                   out |-> get_RawBandParameters(file, fileType, data_key)]
    /\ UNCHANGED <<file, native, latVRT, lonVRT, geolocation, tarNames, mapper>>

Call_get_GeoArrayParameters ==
    /\ call = Idle
    /\ \E fileType \in FileTypes :
       \E data_key \in DataKeys(fileType) :
          call' = [op |-> "get_GeoArrayParameters",
                   args |-> [fileType |-> fileType, data_key |-> data_key],
                   out |-> get_GeoArrayParameters(file, native, fileType, data_key)]
    /\ UNCHANGED <<file, native, latVRT, lonVRT, geolocation, tarNames, mapper>>

Call_create_VRTwithRawBands ==
    /\ call = Idle
    /\ \E fileType \in FileTypes :
       \E data_key \in KeyLists(fileType) :
       \E order \in Orders(Len(data_key)) :
          call' = [op |-> "create_VRTwithRawBands",
                   args |-> [fileType |-> fileType, data_key |-> data_key, order |-> order],
                   out |-> create_VRTwithRawBands(file, fileType, data_key, order)]
    /\ UNCHANGED <<file, native, latVRT, lonVRT, geolocation, tarNames, mapper>>

Call_add_GeolocArrayDataset ==
    /\ call = Idle
    /\ \E fileType \in FileTypes :
       \E latlonName \in LatLonNames(fileType), parameters \in GeoParameters(fileType),
          order \in Orders(2) :
       \E r \in {add_GeolocArrayDataset(file, native, fileType, latlonName, srs,
                      parameters, order,
                      [latVRT |-> latVRT, lonVRT |-> lonVRT, geolocation |-> geolocation])} :
              /\ call' = [op |-> "add_GeolocArrayDataset",
                          args |-> [fileType |-> fileType, latlonName |-> latlonName,
                                    parameters |-> parameters, order |-> order],
                          out |-> r.out]
              /\ latVRT' = r.latVRT
              /\ lonVRT' = r.lonVRT
              /\ geolocation' = r.geolocation
    /\ UNCHANGED <<file, native, tarNames, mapper>>

Next ==
    \/ Call_read_text
    \/ Call_read_scaling_gads
    \/ Call_get_RawBandParameters
    \/ Call_get_GeoArrayParameters
    \/ Call_create_VRTwithRawBands
    \/ Call_add_GeolocArrayDataset

Spec == Init /\ [][Next]_vars

---------------------------------------------------------------------------
(* mapper_landsat.Mapper.  A string is the sequence of its characters.     *)

\* s[lo:hi] of Python, lo and hi possibly negative
PyClamp(n, i) == IF i < 0 THEN Max2(n + i, 0) ELSE Min2(i, n)
PySlice(s, lo, hi) == SubSeq(s, PyClamp(Len(s), lo) + 1, PyClamp(Len(s), hi))
\* s[lo:]
PySliceFrom(s, lo) == SubSeq(s, PyClamp(Len(s), lo) + 1, Len(s))

DotTIF == <<".", "T", "I", "F">>
Dottif == <<".", "t", "i", "f">>
Vsitar == <<"/", "v", "s", "i", "t", "a", "r", "/">>
Slash == <<"/">>

\* the archive the Mapper is given
tarFileName == <<"a", ".", "t", "g", "z">>

\* (tarName[0] == 'L' or tarName[0] == 'M') and
\* (tarName[-4:] == '.TIF' or tarName[-4:] == '.tif'), for a non-empty name
IsBandFile(tarName) ==
    /\ tarName[1] = "L" \/ tarName[1] = "M"
    /\ PySliceFrom(tarName, -4) = DotTIF \/ PySliceFrom(tarName, -4) = Dottif

\* mutant: the slice starts one character late
BandNo_Late(tarName) == PySlice(tarName, -5, -4)

\* bandNo = tarName[-6:-4]
BandNo(tarName) == PySlice(tarName, -6, -4)

\* '/vsitar/%s/%s' % (fileName, tarName)
SourceFilename(name, tarName) == Vsitar \o name \o Slash \o tarName

MetaEntry(name, tarName) ==
    [src |-> [SourceFilename |-> SourceFilename(name, tarName), SourceBand |-> 1],
     dst |-> [wkv |-> "toa_outgoing_spectral_radiance", suffix |-> BandNo(tarName)]]

\* the loop over tarNames: metaDict, or Raised at an empty name
RECURSIVE LandsatMetaDict(_, _)
LandsatMetaDict(name, names) ==
    IF names = <<>> THEN Ok(<<>>)
    ELSE IF names[1] = <<>> THEN RaisedExc("IndexError")       \* tarName[0]
    ELSE
    LET rest == LandsatMetaDict(name, Tail(names))
    IN  IF rest.status # "ok" THEN rest
        ELSE IF IsBandFile(names[1])
        THEN Ok(<<MetaEntry(name, names[1])>> \o rest.value)
        ELSE rest

\* Mapper.__init__: [out, mapper]; the mapper is the VRT initialised from
\* the dataset of tmpName, with the bands of metaDict
Mapper_init(name, names) ==
    LET metaDict == LandsatMetaDict(name, names)
    IN  IF metaDict.status # "ok" THEN [out |-> metaDict, mapper |-> None]
        ELSE IF metaDict.value = <<>>
        THEN [out |-> RaisedExc("IndexError"), mapper |-> None]    \* metaDict[0]
        ELSE [out |-> Ok(None),
              mapper |-> [gdalDataset |-> metaDict.value[1].src.SourceFilename,
                          bands |-> metaDict.value]]

\* member names of the model's archives
TarNameSet ==
    { <<>>,
      <<"L", ".", "T", "I", "F">>,
      <<"L", "1", ".", "T", "I", "F">>,
      <<"L", "B", "1", "0", ".", "T", "I", "F">>,
      <<"M", "6", "1", ".", "t", "i", "f">>,
      <<"L", "7", "1", ".", "t", "x", "t">>,
      <<"x", "6", "1", ".", "T", "I", "F">>,
      <<"L", "7", ".", "T", "i", "f">>,
      <<"M">>,
      <<"T", "I", "F">> }

InitLandsat ==
    /\ file = MkFile(0, 20, 4, 1, "plain")
    /\ native = "little"
    /\ call = Idle
    /\ latVRT = None
    /\ lonVRT = None
    /\ geolocation = None
    /\ tarNames \in SeqsUpTo(TarNameSet, MaxMembers)
    /\ mapper = None

Call_Mapper_init ==
    /\ call = Idle
    /\ LET r == Mapper_init(tarFileName, tarNames)
       IN  /\ call' = [op |-> "Mapper", args |-> [fileName |-> tarFileName], out |-> r.out]
           /\ mapper' = r.mapper
    /\ UNCHANGED <<file, native, latVRT, lonVRT, geolocation, tarNames>>

NextLandsat == Call_Mapper_init

SpecLandsat == InitLandsat /\ [][NextLandsat]_vars

---------------------------------------------------------------------------
(* Properties.  HeaderRead is what read_text has of the file: the lines    *)
(* readlines returns.  Positions are 1-based as in TLA+; "d lines after    *)
(* the marker" is position FirstPos + d.                                   *)

HeaderRead == readlines(file, SizeHint)

Contains(ls, m) == \E i \in 1..Len(ls) : ls[i] = m

\* position of the first line of ls equal to m
FirstPos(ls, m) ==
    CHOOSE i \in 1..Len(ls) : ls[i] = m /\ \A j \in 1..(i - 1) : ls[j] # m

\* line p of ls exists and is "<key>=<integer>", with or without <bytes>
IntLine(ls, p, key) == p \in 1..Len(ls) /\ IsIntText(ls[p], key)

\* the integer on the line d lines after the first marker m of the header
HeaderInt(m, d) == HeaderRead[FirstPos(HeaderRead, m) + d].num

\* the header has the marker m and, after it, the DSD's integer lines
DSDWellFormed(m) ==
    /\ Contains(HeaderRead, m)
    /\ IntLine(HeaderRead, FirstPos(HeaderRead, m) + 3, "DS_OFFSET")
    /\ IntLine(HeaderRead, FirstPos(HeaderRead, m) + 5, "NUM_DSR")
    /\ IntLine(HeaderRead, FirstPos(HeaderRead, m) + 6, "DSR_SIZE")

\* the variable names of a table
Variables(fileType) == DOMAIN ADSR_list(fileType) \ {"Dim"}

AllVariables(fileType, data_key) ==
    \A i \in 1..Len(data_key) : data_key[i] \in Variables(fileType)

RawCall ==
    /\ call.op = "get_RawBandParameters"
    /\ call.args.fileType \in KnownFileTypes
    /\ AllVariables(call.args.fileType, call.args.data_key)

\* C1: for fileType MER_ or ASA_, a header with the table's marker and its
\* DSD lines, and a list data_key of variables of the table,
\* get_RawBandParameters returns one entry per element of data_key, in the
\* order of data_key, the entry of key k with band_name = wkv = k and
\* ImageOffset = DS_OFFSET (3 lines after the marker) + offset of k in the
\* table; it returns exactly when the header is such.
C1_RawBandOffsets ==
    RawCall =>
        LET fileType == call.args.fileType
            data_key == call.args.data_key
            m == gadsDSNameOf(fileType)
        IN  /\ (call.out.status = "ok") <=> DSDWellFormed(m)
            /\ call.out.status = "ok" =>
                 /\ Len(call.out.value.metaDict) = Len(data_key)
                 /\ \A i \in 1..Len(data_key) :
                       LET band == call.out.value.metaDict[i]
                       IN  /\ band.wkv = data_key[i]
                           /\ band.parameters.band_name = data_key[i]
                           /\ band.parameters.ImageOffset =
                                 HeaderInt(m, 3) + ADSR_list(fileType)[data_key[i]].offset

\* a call that returned the bands of two different variables
C1_Witness ==
    /\ RawCall
    /\ call.out.status = "ok"
    /\ Len(call.args.data_key) = 2
    /\ call.args.data_key[1] # call.args.data_key[2]
    /\ call.out.value.metaDict[1].parameters.ImageOffset
          # call.out.value.metaDict[2].parameters.ImageOffset

\* the band of latlonName[which] among the parameters get_RawBandParameters
\* gives for [latitude, longitude]
RawBandNamed(name) ==
    LET r == get_RawBandParameters(file, call.args.fileType,
                 <<call.args.latlonName.latitude, call.args.latlonName.longitude>>)
    IN  (CHOOSE b \in {r.value.metaDict[i] : i \in 1..2} :
            b.parameters.band_name = name).parameters

\* the dataset a name of the geolocation metadata refers to
DatasetNamed(name) == IF latVRT.fileName = name THEN latVRT ELSE lonVRT

\* C2: after add_GeolocArrayDataset the X dataset of the geolocation
\* metadata (xVRT) holds the raw band named latlonName["longitude"] and the
\* Y dataset (yVRT) the raw band named latlonName["latitude"], each divided
\* by 1000000, in either order of the two bands in the intermediate VRT.
C2_GeolocXYDatasets ==
    (call.op = "add_GeolocArrayDataset" /\ call.out.status = "ok") =>
        /\ DatasetNamed(geolocation.xVRT).array.raw
              = RawBandNamed(call.args.latlonName.longitude)
        /\ DatasetNamed(geolocation.yVRT).array.raw
              = RawBandNamed(call.args.latlonName.latitude)
        /\ DatasetNamed(geolocation.xVRT).divisor = 1000000
        /\ DatasetNamed(geolocation.yVRT).divisor = 1000000

\* the dataType code the claim gives a declared datatype
DeclaredTypes == {"uint16", "int16", "uint32", "int32", "float32", "float64"}
DeclaredCode(datatype) ==
    CASE datatype = "uint16" -> 2
      [] datatype = "int16" -> 3
      [] datatype = "uint32" -> 4
      [] datatype = "int32" -> 5
      [] datatype = "float32" -> 6
      [] datatype = "float64" -> 7
IntegerTypes == {"uint16", "int16", "uint32", "int32", "int"}
FloatCodes == {6, 7}
BytesOfType(datatype) ==
    CASE datatype \in {"uint16", "int16"} -> 2
      [] datatype \in {"uint32", "int32", "int", "float32"} -> 4
      [] datatype = "float64" -> 8

\* C3: every band get_RawBandParameters emits carries the dataType code of
\* the datatype the table declares for its variable (uint16=2, int16=3,
\* uint32=4, int32=5, float32=6, float64=7), never a floating-point code
\* for an integer type, and PixelOffset = the size of that datatype.
C3_DeclaredDataTypes ==
    (RawCall /\ call.out.status = "ok") =>
        \A i \in 1..Len(call.args.data_key) :
            LET declared == ADSR_list(call.args.fileType)[call.args.data_key[i]].datatype
                p == call.out.value.metaDict[i].parameters
            IN  /\ declared \in DeclaredTypes => p.dataType = DeclaredCode(declared)
                /\ declared \in IntegerTypes => p.dataType \notin FloatCodes
                /\ p.PixelOffset = BytesOfType(declared)

\* the table's Dim, as the claim states it
DimOf(fileType) == IF fileType = "MER_" THEN 71 ELSE 11

\* C4: get_RawBandParameters returns the band size (Dim of the table: 71
\* for MER_, 11 for ASA_; NUM_DSR, 5 lines after the marker), every band has
\* LineOffset = DSR_SIZE (6 lines after the marker) and ByteOrder "MSB",
\* whichever variables are requested; create_VRTwithRawBands builds its VRT
\* with these sizes.
C4_BandSizeAndStride ==
    /\ (RawCall /\ call.out.status = "ok") =>
          LET m == gadsDSNameOf(call.args.fileType)
          IN  /\ call.out.value.XSize = DimOf(call.args.fileType)
              /\ call.out.value.YSize = HeaderInt(m, 5)
              /\ \A i \in 1..Len(call.out.value.metaDict) :
                    /\ call.out.value.metaDict[i].parameters.LineOffset = HeaderInt(m, 6)
                    /\ call.out.value.metaDict[i].parameters.ByteOrder = "MSB"
    /\ (call.op = "create_VRTwithRawBands" /\ call.out.status = "ok") =>
          LET m == gadsDSNameOf(call.args.fileType)
          IN  /\ call.out.value.srcRasterXSize = DimOf(call.args.fileType)
              /\ call.out.value.srcRasterYSize = HeaderInt(m, 5)
              /\ \A i \in 1..Len(call.out.value.bands) :
                    /\ call.out.value.bands[i].parameters.LineOffset = HeaderInt(m, 6)
                    /\ call.out.value.bands[i].parameters.ByteOrder = "MSB"

\* a VRT built with two bands
C4_Witness ==
    /\ call.op = "create_VRTwithRawBands"
    /\ call.out.status = "ok"
    /\ Len(call.out.value.bands) = 2
    /\ call.out.value.srcRasterXSize # call.out.value.srcRasterYSize
    /\ call.out.value.bands[1].parameters.LineOffset # call.out.value.srcRasterYSize

\* largest element of a non-empty list
MaxOf(l) == CHOOSE x \in {l[i] : i \in 1..Len(l)} : \A i \in 1..Len(l) : l[i] <= x

\* the header has the marker m and an integer DS_OFFSET line 3 lines after
HasDSOffset(m) ==
    /\ Contains(HeaderRead, m)
    /\ IntLine(HeaderRead, FirstPos(HeaderRead, m) + 3, "DS_OFFSET")

AsaGeoCall ==
    /\ call.op = "get_GeoArrayParameters"
    /\ call.args.fileType = "ASA_"
    /\ call.args.data_key # <<>>
    /\ call.args.data_key[1] \in Variables("ASA_")

\* the i-th (from 0) 4-byte value at byte base of the file, unpacked with
\* format fmt on a host of byte order nat
ValueAt(fmt, nat, base, i) == unpack(fmt, nat, Read4(file, base + 4 * i))

\* [v3 - 1, v0 - 1, v4 - v3, v1] of the five values at base
GeoOfValues(fmt, nat, base) ==
    << PySub(fmt, ValueAt(fmt, nat, base, 3), PyOne(fmt)),
       PySub(fmt, ValueAt(fmt, nat, base, 0), PyOne(fmt)),
       PySub(fmt, ValueAt(fmt, nat, base, 4), ValueAt(fmt, nat, base, 3)),
       ValueAt(fmt, nat, base, 1) >>

\* byte at which the ASA_ branch starts to read for data_key[0]
AsaBase == HeaderInt(GeolocationGridADS, 3) + ADSR_ASA[call.args.data_key[1]].offset

\* C5: for ASA_, get_GeoArrayParameters reads the 5 consecutive 4-byte
\* values v0..v4 at byte DS_OFFSET + table offset of data_key[0] (it returns
\* exactly when the header gives DS_OFFSET and the file holds these 20
\* bytes) and returns [v3 - 1, v0 - 1, v4 - v3, v1]; the other elements of
\* data_key have no influence.
C5_AsaGeoArrayParameters ==
    AsaGeoCall =>
        LET fmt == FmtOf(ADSR_ASA[call.args.data_key[1]].datatype)
        IN  /\ (call.out.status = "ok") <=>
                  (HasDSOffset(GeolocationGridADS) /\ AsaBase + 20 <= file.size)
            /\ call.out.status = "ok" =>
                  call.out.value = GeoOfValues(fmt, native, AsaBase)

\* a returning call whose data_key has a second, different element
C5_Witness ==
    /\ AsaGeoCall
    /\ call.out.status = "ok"
    /\ Len(call.args.data_key) = 2
    /\ call.args.data_key[2] # call.args.data_key[1]
    /\ call.out.value[1] # call.out.value[2]

MerGeoCall ==
    /\ call.op = "get_GeoArrayParameters"
    /\ call.args.fileType = "MER_"
    /\ Contains(HeaderRead, QualityADS)

QualityPos == FirstPos(HeaderRead, QualityADS)

First150 == SubSeq(file.lines, 1, Min2(SizeHint, Len(file.lines)))

\* C7: read_text scans the first 150 lines of the file for the marker: a
\* marker that is one of them is found at its first occurrence and the
\* requested keys are returned with the integers of their lines; a marker
\* that is not one of them gives an empty dictionary, without raising.
C7_ScanOfFirst150Lines ==
    (/\ call.op = "read_text"
     /\ DOMAIN call.args.subValOffset # {} => "DS_OFFSET" \in DOMAIN call.args.textOffset)
    =>  LET m == call.args.gadsDSName
            textOffset == call.args.textOffset
            at(key) == FirstPos(First150, m) + textOffset[key]
        IN  IF Contains(First150, m)
            THEN (\A key \in DOMAIN textOffset : IntLine(First150, at(key), key))
                 => /\ call.out.status = "ok"
                    /\ DOMAIN textOffset \subseteq DOMAIN call.out.value
                    /\ \A key \in DOMAIN textOffset :
                          call.out.value[key] = First150[at(key)].num
            ELSE call.out = Ok(EmptyDict)

ScalingCall ==
    /\ call.op = "read_scaling_gads"
    /\ call.args.indeces # <<>>
    /\ \A i \in 1..Len(call.args.indeces) : call.args.indeces[i] >= 0

\* C8: for a non-empty list indeces of non-negative integers,
\* read_scaling_gads reads max(indeces)+1 consecutive 4-byte values at the
\* DS_OFFSET of the 'Scaling Factor GADS' (it returns exactly when the header
\* gives DS_OFFSET and the file holds these bytes) and returns a list as
\* long as indeces whose i-th element is the value at position indeces[i].
C8_ScalingGadsValues ==
    ScalingCall =>
        LET indeces == call.args.indeces
            base == HeaderInt(ScalingFactorGADS, 3)
        IN  /\ (call.out.status = "ok") <=>
                  (/\ HasDSOffset(ScalingFactorGADS)
                   /\ base + 4 * (MaxOf(indeces) + 1) <= file.size)
            /\ call.out.status = "ok" =>
                  /\ Len(call.out.value) = Len(indeces)
                  /\ \A i \in 1..Len(indeces) :
                        call.out.value[i] = Float32(Read4(file, base + 4 * indeces[i]))

\* a returning call with indices out of order
C8_Witness ==
    /\ ScalingCall
    /\ call.out.status = "ok"
    /\ Len(call.args.indeces) = 2
    /\ call.args.indeces[1] > call.args.indeces[2]
    /\ call.out.value[1] # call.out.value[2]

\* C9: every binary read is big-endian: the values read_scaling_gads
\* returns, and those get_GeoArrayParameters computes for any ASA_ variable,
\* are the ones the bytes give read most significant byte first, whatever
\* the byte order of the host.
C9_BigEndianReads ==
    /\ (ScalingCall /\ call.out.status = "ok") =>
          \A i \in 1..Len(call.args.indeces) :
              call.out.value[i] = ValueAt(">f", native,
                  HeaderInt(ScalingFactorGADS, 3), call.args.indeces[i])
    /\ (AsaGeoCall /\ call.out.status = "ok") =>
          call.out.value =
              GeoOfValues(FmtOf(ADSR_ASA[call.args.data_key[1]].datatype), "big", AsaBase)

---------------------------------------------------------------------------
(* Properties of the Landsat Mapper (under SpecLandsat).                   *)

\* the name starts with 'L' or 'M' and ends with '.TIF' or '.tif'
StartsWithLM(name) == Len(name) >= 1 /\ name[1] \in {"L", "M"}
EndsWithTIF(name) ==
    Len(name) >= 4 /\ SubSeq(name, Len(name) - 3, Len(name)) \in {DotTIF, Dottif}
Matching(name) == StartsWithLM(name) /\ EndsWithTIF(name)

\* the members of the listing that match, in listing order
RECURSIVE MatchingMembers(_)
MatchingMembers(names) ==
    IF names = <<>> THEN <<>>
    ELSE (IF Matching(names[1]) THEN <<names[1]>> ELSE <<>>)
         \o MatchingMembers(Tail(names))

HasEmptyName(names) == \E i \in 1..Len(names) : names[i] = <<>>

\* the two characters before the 4-character extension
TwoBeforeExtension(name) == <<name[Len(name) - 5], name[Len(name) - 4]>>

\* the band of member name, but for its suffix
BandSourceOk(band, name) ==
    /\ band.src.SourceFilename = Vsitar \o tarFileName \o Slash \o name
    /\ band.src.SourceBand = 1

\* the construction failed with an IndexError, no VRT initialised
FailedBeforeVRT == call.out = RaisedExc("IndexError") /\ mapper = None

\* C10, as claimed: the Mapper creates one band for each member whose name
\* starts with 'L' or 'M' and ends with '.TIF' or '.tif', in listing order,
\* with source '/vsitar/<fileName>/<member>', source band 1 and suffix = the
\* two characters before the extension, and none for other members; when
\* no member matches or a name is empty it fails with an IndexError before
\* any VRT is initialised.
C10_TwoCharacterSuffix ==
    call.op = "Mapper" =>
        LET members == MatchingMembers(tarNames)
        IN  IF HasEmptyName(tarNames) \/ members = <<>>
            THEN FailedBeforeVRT
            ELSE /\ call.out.status = "ok"
                 /\ Len(mapper.bands) = Len(members)
                 /\ \A i \in 1..Len(members) :
                       /\ BandSourceOk(mapper.bands[i], members[i])
                       /\ Len(members[i]) >= 6
                       /\ mapper.bands[i].dst.suffix = TwoBeforeExtension(members[i])

\* C10, amended: the same, the suffix being the two characters before the
\* extension of a name of 6 characters or more, and the single character
\* before the extension of a name of 5 characters.
C10_SuffixBeforeExtension ==
    call.op = "Mapper" =>
        LET members == MatchingMembers(tarNames)
        IN  IF HasEmptyName(tarNames) \/ members = <<>>
            THEN FailedBeforeVRT
            ELSE /\ call.out.status = "ok"
                 /\ Len(mapper.bands) = Len(members)
                 /\ \A i \in 1..Len(members) :
                       /\ BandSourceOk(mapper.bands[i], members[i])
                       /\ mapper.bands[i].dst.suffix =
                             IF Len(members[i]) >= 6
                             THEN TwoBeforeExtension(members[i])
                             ELSE <<members[i][1]>>

\* a Mapper built with two bands from a listing of three members
C10_Witness ==
    /\ call.op = "Mapper"
    /\ call.out.status = "ok"
    /\ Len(tarNames) = 3
    /\ Len(mapper.bands) = 2
    /\ ~Matching(tarNames[2])
    /\ mapper.bands[1].dst.suffix # mapper.bands[2].dst.suffix

=============================================================================
